---- MODULE Spec2Model ----
(***************************************************************************)
(* Model of github_repo_checker.py: the HTTP request wrapper make_request  *)
(* (rate-limit waits, transient-failure retries with backoff), the         *)
(* paginating search_repos, check_repository with its two classifiers and  *)
(* the orchestrator main.                                                  *)
(*                                                                         *)
(* The program is sequential.  Its only interaction with the outside is    *)
(* requests.get: every GET attempt is one step of the model, whose input   *)
(* (the server's answer) is drawn from Answers, and the 'items' of a       *)
(* response are drawn from ItemPages where search_repos reads them.  The   *)
(* recursion of make_request is kept as an explicit stack of frames.       *)
(***************************************************************************)
EXTENDS Integers, Sequences, FiniteSets, TLC

(* ---- program constants ---- *)
MAX_RETRIES == 3
OUTDATED_THRESHOLD_DAYS == 365
BROKEN_THRESHOLD_DAYS == 180
BROKEN_ISSUES_THRESHOLD == 10

(* ---- bounds of the model ---- *)
\* largest --max_repos tried (the smallest is -1)
MaxRepos == 3
\* longest page the server sends (it may exceed max_repos)
MaxPageLen == 2
\* rate-limit responses the server sends within one top-level make_request
MaxRateLimits == 2

(* ---- time ---- *)
\* lines 86 and 96: timedelta(days=n), in seconds
SecondsPerDay == 86400
Days(n) == n * SecondsPerDay

\* datetime.utcnow() of a run of main, in seconds since day 0
Now == Days(1000)

\* a timestamp string 'YYYY-MM-DDTHH:MM:SSZ': its date as a day number and
\* its time of day in seconds
Stamp(d, t) == [date |-> d, time |-> t]

\* lines 85 and 94: datetime.strptime(s, '%Y-%m-%dT%H:%M:%SZ'), the instant
\* the string names, in seconds since day 0
strptime(s) == Days(s.date) + s.time

(* deepest recursion of make_request with MaxRateLimits rate-limit          *)
(* responses: every frame that goes on is left on the stack                *)
MaxDepth == (MAX_RETRIES + 1) * (MaxRateLimits + 1)

Min(a, b) == IF a < b THEN a ELSE b
Max(a, b) == IF a > b THEN a ELSE b

RECURSIVE Pow2(_)
Pow2(n) == IF n = 0 THEN 1 ELSE 2 * Pow2(n - 1)

(* ---- repository metadata records, as the server sends them ---- *)
RepoA ==
  [full_name |-> "a", html_url |-> "ua", description |-> "da",
   stargazers_count |-> 50, open_issues_count |-> 11,
   pushed_at |-> Stamp(634, 0), created_at |-> Stamp(1, 0)]
RepoB ==
  [full_name |-> "b", html_url |-> "ub", description |-> "db",
   stargazers_count |-> 200, open_issues_count |-> 0,
   pushed_at |-> Stamp(990, 0), created_at |-> Stamp(2, 0)]
\* a record without star count
RepoC ==
  [full_name |-> "c", html_url |-> "uc",
   open_issues_count |-> 12,
   pushed_at |-> Stamp(819, 0), created_at |-> Stamp(3, 0)]
Repos == {RepoA, RepoB, RepoC}

Has(r, k) == k \in DOMAIN r

\* None in the place of a metadata record
PyNone == [py_none |-> TRUE]

\* lines 83 and 92: 'not repo_info' holds for None and for the empty dict
Falsy(r) == DOMAIN r = {} \/ r = PyNone

\* what response.json()['items'] of a 200 answer can be: 0..MaxPageLen
\* records
ItemPages == UNION {[1..n -> Repos] : n \in 0..MaxPageLen}

(* ---- the server's answers to one GET ---- *)
\* remaining = -1 stands for a response without the X-RateLimit-Remaining
\* header; reset_in is X-RateLimit-Reset minus int(time.time())
NoHeader == -1
RateLimitAnswers ==
  [kind : {"response"}, status : {403}, remaining : {0},
   reset_in : {-2, -1, 1}]
ErrorAnswers ==
  [kind : {"response"}, status : {403}, remaining : {NoHeader, 5},
   reset_in : {0}]
  \cup [kind : {"response"}, status : {500}, remaining : {NoHeader},
         reset_in : {0}]
OkAnswers ==
  [kind : {"response"}, status : {200}, remaining : {0}, reset_in : {0}]
\* requests.get itself raising a RequestException (connection error, ...)
NetError ==
  [kind |-> "exception", status |-> 0, remaining |-> NoHeader, reset_in |-> 0]
NoAnswer ==
  [kind |-> "none", status |-> 0, remaining |-> NoHeader, reset_in |-> 0]
Answers == RateLimitAnswers \cup ErrorAnswers \cup OkAnswers \cup {NetError}

(* ---- outcomes of a call of make_request ---- *)
NoOutcome == [kind |-> "none", status |-> 0]
Returned(a) == [kind |-> "response", status |-> a.status]
Raised(exc) == [kind |-> exc, status |-> 0]

VARIABLES
  pc,          \* where main is
  token,       \* GITHUB_TOKEN is set
  max_repos,   \* args.max_repos
  output,      \* args.output is given
  all_repos,   \* search_repos: the items collected so far
  page,        \* search_repos: the next page number
  mstack,      \* the frames of make_request, innermost last
  outcome,     \* what the top-level make_request gave its caller
  repos,       \* main: what search_repos returned
  idx,         \* main: position of the for loop in repos
  results,     \* main: the AnalysisResults
  file,        \* the output file: <<>> or <<results>>
  error,       \* the exception that ended main, or "none"
  requested,   \* history: the page numbers search_repos asked for
  pages,       \* history: the items of the responses search_repos was given
  last,        \* history: the server's answer to the latest GET of the call
  nfail,       \* history: GETs of the call under way that ended in an exception
  nrate,       \* history: rate-limit responses of the call under way
  streak,      \* history: failed GETs since the latest rate-limit response
  wait_time,   \* history: the latest backoff wait (0: none yet)
  stop,        \* history: why the pagination loop ended
  gave_up,     \* history: a make_request of the run raised after its retries
  info,        \* a metadata record given to the classifiers on its own
  r_outdated,  \* what is_repo_outdated(info) gave, and its clock reading
  r_broken,    \* what is_repo_broken(info) gave, and its clock reading
  r_check      \* what check_repository(info) gave, and its clock readings

\* the state of a run of main
mvars == <<pc, token, max_repos, output, all_repos, page, mstack, outcome,
           repos, idx, results, file, error, requested, pages, last, nfail,
           nrate, streak, wait_time, stop, gave_up>>

\* the state of a call of the classifiers and of check_repository on a
\* record of their own
cvars == <<info, r_outdated, r_broken, r_check>>

vars == <<mvars, cvars>>

(* ======================= make_request ================================== *)

Frame(url, rc) == [url |-> url, retry_count |-> rc, at |-> "get"]
Top(s) == s[Len(s)]
Pop(s) == SubSeq(s, 1, Len(s) - 1)
SetAt(s, where) == [s EXCEPT ![Len(s)].at = where]

\* line 31-32: the response is a rate-limit response
IsRateLimited(a) ==
  /\ a.status = 403
  /\ a.remaining # NoHeader
  /\ a.remaining = 0

\* a raise_for_status that lets the 4xx through
RaisesForServerErrors(a) == a.status >= 500 /\ a.status < 600

\* line 39: raise_for_status raises for 4xx and 5xx
RaisesForStatus(a) == a.status >= 400 /\ a.status < 600

\* line 34
SleepTime(a) == a.reset_in + 1

\* line 43
MayRetry(rc) == rc < MAX_RETRIES

\* a linear backoff
BackoffLinear(rc) == 2 * (rc + 1)

\* line 44
BackoffWait(rc) == Pow2(rc)

\* a retry that forgets to count
SameRetryCount(rc) == rc

\* line 47
NextRetryCount(rc) == rc + 1

(* A RequestException is raised inside the try block of the innermost      *)
(* frame of s (lines 42-48).  The frame retries when it may; otherwise it  *)
(* re-raises, the exception passes through the callers that wait in their  *)
(* except clause (line 47) and is caught again by the nearest caller that  *)
(* waits in its try block (line 37).  The result is the stack afterwards,  *)
(* the backoff wait performed (0: none), and whether the exception left    *)
(* the outermost frame.                                                    *)
RECURSIVE Except(_)
RECURSIVE Propagate(_)
Except(s) ==
  LET f == Top(s) IN
  IF MayRetry(f.retry_count)
  THEN [stack |-> Append(SetAt(s, "except"),
                         Frame(f.url, NextRetryCount(f.retry_count))),
        wait |-> BackoffWait(f.retry_count),
        raised |-> FALSE]
  ELSE Propagate(Pop(s))
Propagate(s) ==
  IF s = <<>> THEN [stack |-> <<>>, wait |-> 0, raised |-> TRUE]
  ELSE IF Top(s).at = "try" THEN Except(s)
  ELSE Propagate(Pop(s))

(* ======================= classifiers, check_repository ================= *)

\* a comparison that takes the threshold itself for outdated
OutdatedAtThreshold(repo_info, now) ==
  IF Falsy(repo_info) \/ ~Has(repo_info, "pushed_at") THEN FALSE
  ELSE LET last_push == strptime(repo_info.pushed_at)
       IN (now - last_push) >= Days(OUTDATED_THRESHOLD_DAYS)

\* lines 79-86
is_repo_outdated(repo_info, now) ==
  IF Falsy(repo_info) \/ ~Has(repo_info, "pushed_at") THEN FALSE
  ELSE LET last_push == strptime(repo_info.pushed_at)
       IN (now - last_push) > Days(OUTDATED_THRESHOLD_DAYS)

\* a record without push timestamp counts as one without recent commits
BrokenWithoutPush(repo_info, now) ==
  IF Falsy(repo_info) THEN FALSE
  ELSE LET issues == IF Has(repo_info, "open_issues_count")
                     THEN repo_info.open_issues_count ELSE 0
           has_open_issues == issues > BROKEN_ISSUES_THRESHOLD
           no_recent_commits ==
             IF ~Has(repo_info, "pushed_at") THEN TRUE
             ELSE (now - strptime(repo_info.pushed_at))
                    > Days(BROKEN_THRESHOLD_DAYS)
       IN has_open_issues /\ no_recent_commits

\* either condition alone makes a repository broken
BrokenEitherCondition(repo_info, now) ==
  IF Falsy(repo_info) \/ ~Has(repo_info, "pushed_at") THEN FALSE
  ELSE LET last_push == strptime(repo_info.pushed_at)
           issues == IF Has(repo_info, "open_issues_count")
                     THEN repo_info.open_issues_count ELSE 0
           has_open_issues == issues > BROKEN_ISSUES_THRESHOLD
           no_recent_commits ==
             (now - last_push) > Days(BROKEN_THRESHOLD_DAYS)
       IN has_open_issues \/ no_recent_commits

\* lines 88-97
is_repo_broken(repo_info, now) ==
  IF Falsy(repo_info) \/ ~Has(repo_info, "pushed_at") THEN FALSE
  ELSE LET last_push == strptime(repo_info.pushed_at)
           issues == IF Has(repo_info, "open_issues_count")
                     THEN repo_info.open_issues_count ELSE 0
           has_open_issues == issues > BROKEN_ISSUES_THRESHOLD
           no_recent_commits ==
             (now - last_push) > Days(BROKEN_THRESHOLD_DAYS)
       IN has_open_issues /\ no_recent_commits

\* the keys check_repository reads with [] (lines 104-110)
RequiredFields ==
  {"full_name", "html_url", "stargazers_count", "open_issues_count",
   "pushed_at", "created_at"}

\* a check_repository that reads the description with [] as well
RaisesKeyErrorAnyField(repo_info) ==
  ~((RequiredFields \cup {"description"}) \subseteq DOMAIN repo_info)

RaisesKeyError(repo_info) == ~(RequiredFields \subseteq DOMAIN repo_info)

\* a literal that evaluates is_broken before is_outdated: the first clock
\* reading goes to is_repo_broken
CheckRepositoryBrokenFirst(repo_info, now1, now2) ==
  [name |-> repo_info.full_name,
   url |-> repo_info.html_url,
   description |-> IF Has(repo_info, "description")
                   THEN repo_info.description ELSE "",
   stars |-> repo_info.stargazers_count,
   open_issues |-> repo_info.open_issues_count,
   last_push |-> repo_info.pushed_at,
   created_at |-> repo_info.created_at,
   is_outdated |-> is_repo_outdated(repo_info, now2),
   is_broken |-> is_repo_broken(repo_info, now1)]

\* lines 103-113, for a record that has the required fields; each classifier
\* reads the clock itself: now1 is read at line 86, now2 at line 96
check_repository(repo_info, now1, now2) ==
  [name |-> repo_info.full_name,
   url |-> repo_info.html_url,
   description |-> IF Has(repo_info, "description")
                   THEN repo_info.description ELSE "",
   stars |-> repo_info.stargazers_count,
   open_issues |-> repo_info.open_issues_count,
   last_push |-> repo_info.pushed_at,
   created_at |-> repo_info.created_at,
   is_outdated |-> is_repo_outdated(repo_info, now1),
   is_broken |-> is_repo_broken(repo_info, now2)]

\* line 141: list.sort(key=stars, reverse=True) is stable
RECURSIVE InsertByStars(_, _)
InsertByStars(x, s) ==
  IF s = <<>> THEN <<x>>
  ELSE IF s[1].stars >= x.stars THEN <<s[1]>> \o InsertByStars(x, Tail(s))
  ELSE <<x>> \o s
\* the results left in the order of the search
NoSort(s) == s

RECURSIVE SortByStars(_)
SortByStars(s) ==
  IF s = <<>> THEN <<>>
  ELSE InsertByStars(s[Len(s)], SortByStars(Pop(s)))

(* ======================= search_repos ================================== *)

\* a return without the slice
NoSlice(s, n) == s

\* line 77: all_repos[:max_repos], with Python's meaning of a negative bound
Slice(s, n) ==
  IF n >= 0 THEN SubSeq(s, 1, Min(n, Len(s)))
  ELSE SubSeq(s, 1, Max(0, Len(s) + n))

\* a while test that goes on at the limit
LoopConditionAtLimit(collected, limit) == Len(collected) <= limit

\* line 59
LoopCondition(collected, limit) == Len(collected) < limit

\* an assignment in place of extend
ExtendReplaces(collected, items) == items

\* an extend at the front
ExtendAtFront(collected, items) == items \o collected

\* line 67
Extend(collected, items) == collected \o items

\* a page counter that skips
NextPageSkips(p) == p + 2

\* line 68
NextPage(p) == p + 1

\* line 70
ReachedMax(collected, limit) == Len(collected) >= limit

\* the caller of make_request has taken its outcome: the history of the
\* call is cleared
CallOver ==
  /\ outcome' = NoOutcome
  /\ last' = NoAnswer
  /\ nfail' = 0
  /\ nrate' = 0
  /\ streak' = 0
  /\ wait_time' = 0

\* line 77 and main's lines 124-127: search_repos returns, the for loop
\* of main starts
SearchReturns(collected, why) ==
  /\ repos' = Slice(collected, max_repos)
  /\ stop' = why
  /\ pc' = "classify"
  /\ idx' = 1
  /\ results' = <<>>

\* no function is called on a record of its own
NotCalled == [kind |-> "none"]
NoCalls ==
  /\ info = PyNone
  /\ r_outdated = NotCalled
  /\ r_broken = NotCalled
  /\ r_check = NotCalled

\* main before its first step, with the arguments given
MainInit(tk, mr, out) ==
  /\ pc = "start"
  /\ token = tk
  /\ max_repos = mr
  /\ output = out
  /\ all_repos = <<>>
  /\ page = 1
  /\ mstack = <<>>
  /\ outcome = NoOutcome
  /\ repos = <<>>
  /\ idx = 1
  /\ results = <<>>
  /\ file = <<>>
  /\ error = "none"
  /\ requested = <<>>
  /\ pages = <<>>
  /\ last = NoAnswer
  /\ nfail = 0
  /\ nrate = 0
  /\ streak = 0
  /\ wait_time = 0
  /\ stop = "none"
  /\ gave_up = FALSE

Init ==
  /\ \E tk \in BOOLEAN, mr \in -1..MaxRepos, out \in BOOLEAN :
       MainInit(tk, mr, out)
  /\ NoCalls

\* a main that goes on without the credential
MainStartNoCheck ==
  /\ pc = "start"
  /\ pc' = "loop"
  /\ all_repos' = <<>>
  /\ page' = 1
  /\ UNCHANGED <<token, max_repos, output, mstack, outcome, repos, idx,
                 results, file, error, requested, pages, last, nfail, nrate,
                 streak, wait_time, stop, gave_up>>
  /\ UNCHANGED cvars

\* main, lines 119-124 and 55-57: the credential check, then search_repos
\* is entered
MainStart ==
  /\ pc = "start"
  /\ IF ~token
     THEN /\ pc' = "done"
          /\ UNCHANGED <<all_repos, page>>
     ELSE /\ pc' = "loop"
          /\ all_repos' = <<>>
          /\ page' = 1
  /\ UNCHANGED <<token, max_repos, output, mstack, outcome, repos, idx,
                 results, file, error, requested, pages, last, nfail, nrate,
                 streak, wait_time, stop, gave_up>>
  /\ UNCHANGED cvars

\* lines 59-61: the while test; it calls make_request for the page, or the
\* loop is over and search_repos returns
SearchLoop ==
  /\ pc = "loop"
  /\ IF LoopCondition(all_repos, max_repos)
     THEN /\ mstack' = <<Frame(page, 0)>>
          /\ requested' = Append(requested, page)
          /\ pc' = "request"
          /\ UNCHANGED <<repos, idx, results, stop>>
     ELSE /\ SearchReturns(all_repos, "limit")
          /\ UNCHANGED <<mstack, requested>>
  /\ UNCHANGED <<token, max_repos, output, all_repos, page, outcome, file,
                 error, pages, last, nfail, nrate, streak, wait_time, gave_up>>
  /\ UNCHANGED cvars

(* ---- one GET attempt of the innermost frame, lines 28-48 ---- *)

\* line 29: a GET of the innermost frame is answered by a.  The guard on the
\* depth never binds: MaxDepth frames is the most that MaxRateLimits
\* rate-limit responses lead to
Get(a) ==
  /\ pc = "request"
  /\ Len(mstack) <= MaxDepth
  /\ last' = a
  /\ UNCHANGED <<token, max_repos, output, all_repos, page, repos, idx,
                 results, file, error, requested, pages, stop>>
  /\ UNCHANGED cvars

\* line 29 raised, or line 39 raised: the except clause
GetFails(a) ==
  /\ Get(a)
  /\ a.kind = "exception" \/ (~IsRateLimited(a) /\ RaisesForStatus(a))
  /\ LET e == Except(mstack) IN
       /\ mstack' = e.stack
       /\ wait_time' = IF e.wait # 0 THEN e.wait ELSE wait_time
       /\ IF e.raised
          THEN /\ outcome' = Raised("RequestException")
               /\ pc' = "handle"
               /\ gave_up' = TRUE
          ELSE UNCHANGED <<outcome, pc, gave_up>>
  /\ nfail' = nfail + 1
  /\ streak' = streak + 1
  /\ UNCHANGED nrate

\* lines 31-37: a rate-limit response: sleep, then the same URL again with
\* the default retry_count; time.sleep raises ValueError for a negative time
GetRateLimited(a) ==
  /\ Get(a)
  /\ a.kind = "response"
  /\ IsRateLimited(a)
  /\ nrate < MaxRateLimits
  /\ nrate' = nrate + 1
  /\ streak' = 0
  /\ IF SleepTime(a) < 0
     THEN /\ mstack' = <<>>
          /\ outcome' = Raised("ValueError")
          /\ pc' = "handle"
     ELSE /\ mstack' = Append(SetAt(mstack, "try"), Frame(Top(mstack).url, 0))
          /\ UNCHANGED <<outcome, pc>>
  /\ UNCHANGED <<nfail, wait_time, gave_up>>

\* lines 39-40: the response is returned, through every frame; the history
\* of the failed attempts and of the waits ends with the success
GetReturns(a) ==
  /\ Get(a)
  /\ a.kind = "response"
  /\ ~IsRateLimited(a)
  /\ ~RaisesForStatus(a)
  /\ mstack' = <<>>
  /\ outcome' = Returned(a)
  /\ pc' = "handle"
  /\ nfail' = 0
  /\ nrate' = 0
  /\ streak' = 0
  /\ wait_time' = 0
  /\ UNCHANGED gave_up

(* ---- search_repos after make_request, lines 62-77 ---- *)

\* lines 62-71: make_request returned a response, whose 'items' are read
SearchPage(items) ==
  /\ pc = "handle"
  /\ outcome.kind = "response"
  /\ pages' = Append(pages, items)
  /\ IF items = <<>>
     THEN /\ SearchReturns(all_repos, "empty")
          /\ UNCHANGED <<all_repos, page>>
     ELSE /\ all_repos' = Extend(all_repos, items)
          /\ page' = NextPage(page)
          /\ IF ReachedMax(Extend(all_repos, items), max_repos)
             THEN SearchReturns(Extend(all_repos, items), "max")
             ELSE pc' = "loop" /\ UNCHANGED <<repos, idx, results, stop>>
  /\ CallOver
  /\ UNCHANGED <<token, max_repos, output, mstack, file, error, requested,
                 gave_up>>
  /\ UNCHANGED cvars

\* a search_repos that lets the RequestException through
SearchExceptRaises ==
  /\ pc = "handle"
  /\ outcome.kind = "RequestException"
  /\ pc' = "raised"
  /\ error' = outcome.kind
  /\ CallOver
  /\ UNCHANGED <<token, max_repos, output, all_repos, page, mstack, repos,
                 idx, results, file, requested, pages, stop, gave_up>>
  /\ UNCHANGED cvars

\* lines 73-77: make_request raised a RequestException
SearchExcept ==
  /\ pc = "handle"
  /\ outcome.kind = "RequestException"
  /\ SearchReturns(all_repos, "error")
  /\ CallOver
  /\ UNCHANGED <<token, max_repos, output, all_repos, page, mstack, file,
                 error, requested, pages, gave_up>>
  /\ UNCHANGED cvars

\* an exception that is no RequestException is caught neither by line 73
\* nor by main
SearchUncaught ==
  /\ pc = "handle"
  /\ outcome.kind = "ValueError"
  /\ pc' = "raised"
  /\ error' = outcome.kind
  /\ CallOver
  /\ UNCHANGED <<token, max_repos, output, all_repos, page, mstack, repos,
                 idx, results, file, requested, pages, stop, gave_up>>
  /\ UNCHANGED cvars

(* ---- main after search_repos, lines 127-146 ---- *)

\* a for loop that leaves out a record it cannot read
ClassifySkips ==
  /\ pc = "classify"
  /\ idx <= Len(repos)
  /\ results' = IF RaisesKeyError(repos[idx]) THEN results
                ELSE Append(results, check_repository(repos[idx], Now, Now))
  /\ idx' = idx + 1
  /\ UNCHANGED <<pc, error>>
  /\ UNCHANGED <<token, max_repos, output, all_repos, page, mstack, outcome,
                 repos, file, requested, pages, last, nfail, nrate, streak,
                 wait_time, stop, gave_up>>
  /\ UNCHANGED cvars

\* lines 127-129: one iteration of the for loop
Classify ==
  /\ pc = "classify"
  /\ idx <= Len(repos)
  /\ IF RaisesKeyError(repos[idx])
     THEN /\ pc' = "raised"
          /\ error' = "KeyError"
          /\ UNCHANGED <<idx, results>>
     ELSE /\ results' = Append(results, check_repository(repos[idx], Now, Now))
          /\ idx' = idx + 1
          /\ UNCHANGED <<pc, error>>
  /\ UNCHANGED <<token, max_repos, output, all_repos, page, mstack, outcome,
                 repos, file, requested, pages, last, nfail, nrate, streak,
                 wait_time, stop, gave_up>>
  /\ UNCHANGED cvars

\* lines 141-146: the loop is over: sort, then write the file when asked
Finish ==
  /\ pc = "classify"
  /\ idx > Len(repos)
  /\ results' = SortByStars(results)
  /\ file' = IF output THEN <<SortByStars(results)>> ELSE file
  /\ pc' = "done"
  /\ UNCHANGED <<token, max_repos, output, all_repos, page, mstack, outcome,
                 repos, idx, error, requested, pages, last, nfail, nrate,
                 streak, wait_time, stop, gave_up>>
  /\ UNCHANGED cvars

Next ==
  \/ MainStart
  \/ SearchLoop
  \/ \E a \in Answers : GetFails(a)
  \/ \E a \in Answers : GetRateLimited(a)
  \/ \E a \in Answers : GetReturns(a)
  \/ \E items \in ItemPages : SearchPage(items)
  \/ SearchExcept
  \/ SearchUncaught
  \/ Classify
  \/ Finish

Spec == Init /\ [][Next]_vars

\* a run with the credential that asks for one repository: it makes one
\* top-level call of make_request
OneCallInit == Init /\ token /\ max_repos = 1 /\ ~output

\* the program is sequential and every GET and every sleep ends, so a step
\* that can be taken is taken
FairSpec == OneCallInit /\ [][Next]_vars /\ WF_vars(Next)

(* ======================= the classifiers on their own ================== *)
(* is_repo_outdated, is_repo_broken and check_repository are functions of  *)
(* one metadata record and of the clock.  Here each is called once on a    *)
(* record drawn from Metadata, with the clock readings drawn from Clock.   *)

FieldNames ==
  {"full_name", "html_url", "description", "stargazers_count",
   "open_issues_count", "pushed_at", "created_at"}

\* open-issue counts on both sides of BROKEN_ISSUES_THRESHOLD
IssueCounts == {BROKEN_ISSUES_THRESHOLD, BROKEN_ISSUES_THRESHOLD + 1}

\* push timestamps one second before, at and one second after the instants
\* OUTDATED_THRESHOLD_DAYS and BROKEN_THRESHOLD_DAYS before Now
PushStamps ==
  {Stamp(1000 - OUTDATED_THRESHOLD_DAYS - 1, SecondsPerDay - 1),
   Stamp(1000 - OUTDATED_THRESHOLD_DAYS, 0),
   Stamp(1000 - OUTDATED_THRESHOLD_DAYS, 1),
   Stamp(1000 - BROKEN_THRESHOLD_DAYS - 1, SecondsPerDay - 1),
   Stamp(1000 - BROKEN_THRESHOLD_DAYS, 0),
   Stamp(1000 - BROKEN_THRESHOLD_DAYS, 1)}

\* the dict with the keys D, i open issues and the push timestamp p
Record(D, i, p) ==
  [k \in D |->
     CASE k = "full_name" -> "o/r"
       [] k = "html_url" -> "u"
       [] k = "description" -> "d"
       [] k = "stargazers_count" -> 50
       [] k = "open_issues_count" -> i
       [] k = "pushed_at" -> p
       [] k = "created_at" -> Stamp(1, 0)]

\* the arguments: None, and the dicts with any set of the keys (the empty
\* dict among them)
Metadata ==
  {PyNone} \cup
  {Record(D, i, p) : D \in SUBSET FieldNames, i \in IssueCounts,
                     p \in PushStamps}

\* what datetime.utcnow() can give: the clock is not monotonic, so two
\* readings of one call come in any order
Clock == {Now - Days(200), Now, Now + 1}

CallReturned(v) == [kind |-> "returned", value |-> v]
CallRaised(exc) == [kind |-> "raised", exc |-> exc]

CheckInit ==
  /\ MainInit(FALSE, 0, FALSE)
  /\ info \in Metadata
  /\ r_outdated = NotCalled
  /\ r_broken = NotCalled
  /\ r_check = NotCalled

\* is_repo_outdated(info), the clock read at line 86 giving t
CallIsRepoOutdated(t) ==
  /\ r_outdated = NotCalled
  /\ r_outdated' = [call |-> CallReturned(is_repo_outdated(info, t)),
                    now |-> t]
  /\ UNCHANGED <<info, r_broken, r_check>>
  /\ UNCHANGED mvars

\* is_repo_broken(info), the clock read at line 96 giving t
CallIsRepoBroken(t) ==
  /\ r_broken = NotCalled
  /\ r_broken' = [call |-> CallReturned(is_repo_broken(info, t)), now |-> t]
  /\ UNCHANGED <<info, r_outdated, r_check>>
  /\ UNCHANGED mvars

\* check_repository(info): None has no [] (TypeError at line 104), a dict
\* without a key read with [] raises KeyError, otherwise the literal of
\* lines 103-113 is returned, the clock read at line 86 giving t1 and then
\* at line 96 giving t2
CallCheckRepository(t1, t2) ==
  /\ r_check = NotCalled
  /\ r_check' =
       [call |-> IF info = PyNone THEN CallRaised("TypeError")
                 ELSE IF RaisesKeyError(info) THEN CallRaised("KeyError")
                 ELSE CallReturned(check_repository(info, t1, t2)),
        now1 |-> t1, now2 |-> t2]
  /\ UNCHANGED <<info, r_outdated, r_broken>>
  /\ UNCHANGED mvars

CheckNext ==
  \/ \E t \in Clock : CallIsRepoOutdated(t)
  \/ \E t \in Clock : CallIsRepoBroken(t)
  \/ \E t1 \in Clock, t2 \in Clock : CallCheckRepository(t1, t2)

CheckSpec == CheckInit /\ [][CheckNext]_vars

(* ======================= the claims ==================================== *)

\* the concatenation of the pages, in page order
RECURSIVE Flatten(_)
Flatten(ps) == IF ps = <<>> THEN <<>> ELSE ps[1] \o Flatten(Tail(ps))

\* search_repos has returned
SearchReturned == stop # "none"

\* the latest GET was answered by a rate-limit response
SawRateLimit ==
  last.kind = "response" /\ last.status = 403 /\ last.remaining = 0

(* C1: for every non-negative max_repos and whatever the server did, the   *)
(* sequence search_repos returns has at most max_repos elements.           *)
C1_LengthAtMostMax ==
  (SearchReturned /\ max_repos >= 0) => Len(repos) <= max_repos

\* the last page went beyond max_repos and the result was cut to it
C1_Witness ==
  /\ stop = "max"
  /\ max_repos = 1
  /\ Len(all_repos) = 2
  /\ Len(repos) = 1

(* C2: when the request for page k >= 2 ends in a request error after      *)
(* pages 1..k-1 arrived with items, search_repos does not raise: its next  *)
(* step is to return exactly the items of pages 1..k-1, in order.          *)
C2_ErrorReturnsCollected ==
  [][(pc = "handle" /\ outcome.kind = "RequestException"
        /\ Len(requested) >= 2)
       => /\ pc' = "classify"
          /\ error' = "none"
          /\ stop' = "error"
          /\ Len(pages) = Len(requested) - 1
          /\ repos' = Flatten(pages)]_vars

\* the error came on page 3, after two pages with items
C2_Witness ==
  /\ stop = "error"
  /\ pc = "classify"
  /\ Len(requested) = 3
  /\ Len(pages) = 2
  /\ repos = pages[1] \o pages[2]
  /\ Len(repos) >= 2

(* C3: what search_repos returns is exactly the first min(max_repos, N)    *)
(* items of the concatenation, in page order, of the pages it fetched      *)
(* with success, N being the number of items in those pages.               *)
C3_PrefixOfPages ==
  (SearchReturned /\ max_repos >= 0) =>
    LET fetched == Flatten(pages)
        n == IF max_repos < Len(fetched) THEN max_repos ELSE Len(fetched)
    IN /\ Len(repos) = n
       /\ \A i \in 1..n : repos[i] = fetched[i]

\* two pages were fetched and the second went beyond max_repos
C3_Witness ==
  /\ SearchReturned
  /\ Len(pages) = 2
  /\ Len(Flatten(pages)) > max_repos
  /\ Len(repos) = max_repos
  /\ repos[max_repos] = pages[2][1]

(* C4: the pagination loop asks for the pages 1, 2, 3, ... in this order,  *)
(* none skipped and none twice; page k+1 is asked for only after page k    *)
(* arrived with success and was not empty and the items of pages 1..k were *)
(* fewer than max_repos; once the loop has ended there is no request.      *)
C4_PagesInOrder ==
  /\ \A i \in 1..Len(requested) : requested[i] = i
  /\ Len(requested) <= Len(pages) + 1
  /\ \A k \in 1..(Len(requested) - 1) :
       /\ pages[k] # <<>>
       /\ Len(Flatten(SubSeq(pages, 1, k))) < max_repos
  /\ SearchReturned => (pc \in {"classify", "done", "raised"} /\ mstack = <<>>)
  /\ (pc \in {"request", "handle"} /\ outcome.kind # "response")
       => Len(requested) = Len(pages) + 1

\* three pages were asked for and the third was empty
C4_Witness ==
  /\ requested = <<1, 2, 3>>
  /\ stop = "empty"
  /\ Len(pages) = 3

(* C5: within one top-level call of make_request at most MAX_RETRIES + 1   *)
(* GET attempts end in a request-level exception, whatever the server      *)
(* answers; then the exception goes to the caller.                         *)
C5_FailuresBounded == nfail <= MAX_RETRIES + 1

(* C6, as stated: once a make_request of the run has raised after its      *)
(* retries, main neither classifies, nor completes, nor writes a report.   *)
C6_FailureIsFatal ==
  gave_up => (pc \notin {"classify", "done"} /\ file = <<>>)

(* C6, amended: the exception of a make_request that has used up its       *)
(* retries ends the pagination only: search_repos returns what was         *)
(* collected, no RequestException ends main, and main goes on with the     *)
(* classification; when main is done it has one result per collected       *)
(* repository and, with --output, has written them.                        *)
C6_FailureEndsSearchOnly ==
  gave_up =>
    /\ error # "RequestException"
    /\ \/ pc = "handle" /\ outcome.kind = "RequestException"
       \/ pc \in {"classify", "done"} /\ error = "none"
       \/ pc = "raised" /\ error = "KeyError"
    /\ pc # "handle" => (stop = "error" /\ repos = Flatten(pages))
    /\ pc = "done" =>
         /\ Len(results) = Len(repos)
         /\ output => file = <<results>>

\* a request gave up on page 2; main completed and wrote the report of
\* page 1
C6_Witness ==
  /\ gave_up
  /\ pc = "done"
  /\ output
  /\ Len(repos) >= 1
  /\ file = <<results>>
  /\ Len(results) = Len(repos)

(* C7: a rate-limit response (403, rate-limit-remaining 0) is followed by  *)
(* a wait and a new GET of the same URL with the full retry budget         *)
(* (retry_count 0), however many came before; and an exception leaves      *)
(* make_request only after MAX_RETRIES retries since the latest of them.   *)
C7_RateLimitReissues ==
  /\ SawRateLimit =>
       /\ pc = "request"
       /\ outcome.kind = "none"
       /\ Top(mstack) = Frame(page, 0)
       /\ SleepTime(last) >= 0
  /\ (pc = "handle" /\ outcome.kind = "RequestException")
       => streak >= MAX_RETRIES + 1

C9_ReturnsSuccessOnly ==
  /\ outcome.kind = "response" => outcome.status < 400
  /\ (last.kind = "response" /\ last.status >= 400 /\ ~SawRateLimit) =>
       /\ nfail >= 1
       /\ streak >= 1
       /\ \/ pc = "request" /\ Top(mstack).retry_count >= 1 /\ wait_time >= 1
          \/ pc = "handle" /\ outcome.kind = "RequestException"

\* a 403 with rate-limit-remaining 5 was retried
C9_Witness ==
  /\ last.status = 403
  /\ last.remaining = 5
  /\ pc = "request"
  /\ nfail = 1
  /\ Top(mstack).retry_count = 1

(* C10: the backoff wait before a retry is 2^attempt seconds, attempt      *)
(* being the retry count of the attempt that failed: 1, 2 and 4 seconds    *)
(* before the retries with count 1, 2 and 3; no wait exceeds 4 seconds.    *)
C10_BackoffWaits ==
  /\ wait_time \in {0, 1, 2, 4}
  /\ wait_time <= 4
  /\ (wait_time = 0) = (nfail = 0)
  /\ (pc = "request" /\ Top(mstack).retry_count = 1) => wait_time = 1
  /\ (pc = "request" /\ Top(mstack).retry_count = 2) => wait_time = 2
  /\ (pc = "request" /\ Top(mstack).retry_count = 3) => wait_time = 4

\* the third retry is under way, after a wait of 4 seconds
C10_Witness ==
  /\ pc = "request"
  /\ Top(mstack).retry_count = MAX_RETRIES
  /\ wait_time = 4
  /\ nfail = 3

(* ---- claims about main ---- *)

\* how many elements of the sequence s satisfy Test
Count(s, Test(_)) == Cardinality({i \in 1..Len(s) : Test(s[i])})

\* the record lacks one of the fields check_repository reads with []
Incomplete(r) ==
  \E k \in {"full_name", "html_url", "stargazers_count",
             "open_issues_count", "pushed_at", "created_at"} :
    k \notin DOMAIN r

(* C14: when main has processed the repositories, results holds exactly    *)
(* one AnalysisResult for each repository search_repos returned (none      *)
(* lost, none twice), ordered by stars descending; with --output the file  *)
(* is written after the sort and holds the sorted collection, without it   *)
(* no file is written.                                                     *)
C14_SortedOnePerRepo ==
  /\ (pc = "done" /\ token) =>
       /\ Len(results) = Len(repos)
       /\ \A x \in Repos :
            LET IsX(r) == r = x
                OfX(a) == a.name = x.full_name /\ a.url = x.html_url
            IN Count(results, OfX) = Count(repos, IsX)
       /\ \A i \in 1..(Len(results) - 1) :
            results[i].stars >= results[i + 1].stars
       /\ file = IF output THEN <<results>> ELSE <<>>
  /\ file # <<>> => pc = "done" /\ output

\* 50 and 200 stars in the order of the search end as 200, 50, in the file
\* too
C14_Witness ==
  /\ pc = "done"
  /\ repos = <<RepoA, RepoB>>
  /\ Len(results) = 2
  /\ results[1].stars = 200
  /\ results[2].stars = 50
  /\ output
  /\ file = <<results>>

(* C15: without the credential main returns at once: no HTTP request, no   *)
(* search, no classification and no output file, even with --output.       *)
C15_NoTokenNoWork ==
  ~token =>
    /\ pc \in {"start", "done"}
    /\ requested = <<>>
    /\ mstack = <<>>
    /\ last = NoAnswer
    /\ stop = "none"
    /\ repos = <<>>
    /\ results = <<>>
    /\ file = <<>>
    /\ error = "none"

\* main has returned without the credential, --output given
C15_Witness ==
  /\ ~token
  /\ output
  /\ pc = "done"
  /\ file = <<>>

(* C16: when a record of the search lacks a required field, the for loop   *)
(* stops at the first such record with a KeyError that nothing catches:    *)
(* main does not finish, and no output file is written, even with --output *)
(* and with earlier records processed.                                     *)
C16_KeyErrorEndsRun ==
  /\ (SearchReturned /\ Count(repos, Incomplete) > 0) =>
       LET bad == CHOOSE i \in 1..Len(repos) :
                    /\ Incomplete(repos[i])
                    /\ \A j \in 1..(i - 1) : ~Incomplete(repos[j])
       IN /\ pc \in {"classify", "raised"}
          /\ idx <= bad
          /\ pc = "raised" => (error = "KeyError" /\ idx = bad)
          /\ Len(results) = idx - 1
          /\ file = <<>>
  /\ error = "KeyError" =>
       (pc = "raised" /\ Count(repos, Incomplete) > 0 /\ file = <<>>)

\* the KeyError came after a record was processed, --output given
C16_Witness ==
  /\ pc = "raised"
  /\ error = "KeyError"
  /\ output
  /\ Len(results) >= 1
  /\ Len(repos) > Len(results)
  /\ file = <<>>

(* C18: for every rate-limit response, whatever its reset header and the   *)
(* clock, the time given to sleep is not negative, so that no make_request *)
(* ends with an error that is not a request error.                         *)
C18_SleepNeverNegative ==
  /\ (last \in RateLimitAnswers) => last.reset_in + 1 >= 0
  /\ outcome.kind # "ValueError"
  /\ error # "ValueError"

(* C20: search_repos ends when every make_request ends: an iteration of    *)
(* the loop either ends search_repos or leaves all_repos strictly longer,  *)
(* so no more than max_repos pages are requested when max_repos >= 1, and  *)
(* for max_repos <= 0 nothing is requested and the empty list is returned. *)
C20_SearchIterationsBounded ==
  [][/\ (pc = "handle") => pc' \in {"loop", "classify", "raised"}
     /\ (pc = "handle" /\ pc' = "loop") => Len(all_repos') > Len(all_repos)
     /\ (pc = "loop" /\ pc' = "request") =>
          (Len(requested') = Len(requested) + 1
             /\ Len(all_repos) >= Len(requested))
     /\ (max_repos >= 1) => Len(requested') <= max_repos
     /\ (max_repos <= 0 /\ pc = "loop") =>
          (pc' = "classify" /\ repos' = <<>> /\ requested' = <<>>
             /\ mstack' = <<>>)
     /\ (max_repos <= 0) => requested' = <<>>]_vars

\* search_repos has returned after max_repos page requests, the most there
\* can be
C20_Witness ==
  /\ SearchReturned
  /\ max_repos >= 2
  /\ Len(requested) = max_repos
  /\ Len(repos) = max_repos

(* ---- claims about the classifiers, under CheckSpec ---- *)

\* seconds between the push timestamp of info and the clock reading t
PushAge(t) == t - (info.pushed_at.date * 86400 + info.pushed_at.time)

OutdatedCalled == r_outdated # NotCalled
BrokenCalled == r_broken # NotCalled
CheckCalled == r_check # NotCalled

(* C11: for a record with a push timestamp is_repo_outdated returns true   *)
(* exactly when the clock reading minus the last push is strictly more     *)
(* than 365 days; a push exactly 365 days ago, or later, gives false.      *)
C11_OutdatedIffOverYear ==
  (OutdatedCalled /\ Has(info, "pushed_at")) =>
    /\ r_outdated.call.kind = "returned"
    /\ r_outdated.call.value = (PushAge(r_outdated.now) > 365 * 86400)
    /\ PushAge(r_outdated.now) <= 365 * 86400 => ~r_outdated.call.value

\* a record pushed exactly 365 days before the clock reading is not outdated
C11_Witness ==
  /\ OutdatedCalled
  /\ Has(info, "pushed_at")
  /\ PushAge(r_outdated.now) = 365 * 86400
  /\ r_outdated.call = CallReturned(FALSE)

(* C12: for a record with a push timestamp is_repo_broken returns true     *)
(* exactly when open_issues_count > 10 and the last push is strictly more  *)
(* than 180 days before the clock reading; a count of 10 or less (a        *)
(* missing count is 0) or a push within 180 days (180 included) gives      *)
(* false.                                                                  *)
C12_BrokenIffIssuesAndStale ==
  (BrokenCalled /\ Has(info, "pushed_at")) =>
    LET count == IF Has(info, "open_issues_count")
                 THEN info.open_issues_count ELSE 0
        age == PushAge(r_broken.now)
    IN /\ r_broken.call.kind = "returned"
       /\ r_broken.call.value = (count > 10 /\ age > 180 * 86400)
       /\ (count <= 10 \/ age <= 180 * 86400) => ~r_broken.call.value

\* a record with 11 open issues pushed exactly 180 days before the clock
\* reading is not broken
C12_Witness ==
  /\ BrokenCalled
  /\ Has(info, "pushed_at")
  /\ Has(info, "open_issues_count")
  /\ info.open_issues_count = 11
  /\ PushAge(r_broken.now) = 180 * 86400
  /\ r_broken.call = CallReturned(FALSE)

(* C13: for metadata that is None, empty or without a push timestamp both  *)
(* classifiers return false and do not raise, whatever its other fields.   *)
C13_NoPushGivesFalse ==
  ~Has(info, "pushed_at") =>
    /\ OutdatedCalled => r_outdated.call = CallReturned(FALSE)
    /\ BrokenCalled => r_broken.call = CallReturned(FALSE)

\* both classifiers have answered for the empty dict
C13_Witness ==
  /\ DOMAIN info = {}
  /\ OutdatedCalled
  /\ BrokenCalled
  /\ r_outdated.call = CallReturned(FALSE)
  /\ r_broken.call = CallReturned(FALSE)

\* info is a dict, not None
IsDict == ~Has(info, "py_none")

(* C17: check_repository raises KeyError whenever full name, URL, star     *)
(* count, open-issue count, push timestamp or creation timestamp is absent *)
(* from the record; an absent description alone does not fail and becomes  *)
(* the empty string; with all six present it returns one record whose      *)
(* is_outdated and is_broken are what the two classifiers give for the     *)
(* record.                                                                 *)
C17_LookupErrorOrRecord ==
  (CheckCalled /\ IsDict) =>
    IF Incomplete(info)
    THEN r_check.call = CallRaised("KeyError")
    ELSE LET a == r_check.call.value
             count == info.open_issues_count
         IN /\ r_check.call.kind = "returned"
            /\ a.name = info.full_name
            /\ a.url = info.html_url
            /\ a.description =
                 IF Has(info, "description") THEN info.description ELSE ""
            /\ a.stars = info.stargazers_count
            /\ a.open_issues = info.open_issues_count
            /\ a.last_push = info.pushed_at
            /\ a.created_at = info.created_at
            /\ a.is_outdated = (PushAge(r_check.now1) > 365 * 86400)
            /\ a.is_broken =
                 (count > 10 /\ PushAge(r_check.now2) > 180 * 86400)

\* a record without creation timestamp only, the last key read
C17_Witness ==
  /\ CheckCalled
  /\ DOMAIN info = FieldNames \ {"created_at"}
  /\ r_check.call = CallRaised("KeyError")

(* C19: an AnalysisResult of check_repository with is_outdated true and    *)
(* more than 10 open issues has is_broken true as well, when the clock     *)
(* reading of is_repo_broken is not before that of is_repo_outdated, which *)
(* is evaluated first.                                                     *)
C19_OutdatedWithIssuesIsBroken ==
  (CheckCalled /\ r_check.call.kind = "returned"
     /\ r_check.now2 >= r_check.now1) =>
    LET a == r_check.call.value
    IN (a.is_outdated /\ a.open_issues > 10) => a.is_broken

\* an outdated record with 11 open issues, the clock having moved on
\* between the two readings
C19_Witness ==
  /\ CheckCalled
  /\ r_check.call.kind = "returned"
  /\ r_check.now2 > r_check.now1
  /\ r_check.call.value.is_outdated
  /\ r_check.call.value.open_issues = 11
  /\ r_check.call.value.is_broken

\* with the clock set back between the two readings the flags disagree
C19_ClockSetBack ==
  /\ CheckCalled
  /\ r_check.call.kind = "returned"
  /\ r_check.now2 < r_check.now1
  /\ r_check.call.value.is_outdated
  /\ r_check.call.value.open_issues = 11
  /\ ~r_check.call.value.is_broken

====
